---- MODULE Spec2Model ----
(***************************************************************************)
(* Sign-language video service: the moderation/lookup server               *)
(* (voice_server.py) and the dataset loaders (push_dataset_to_s3.py,       *)
(* populate_database.py).                                                  *)
(*                                                                         *)
(* Python strings are sequences of one-character strings, so that the      *)
(* string conversions of the code (lower, replace, strip, split, the       *)
(* isalnum filter) are computed and not assumed.                           *)
(***************************************************************************)
EXTENDS Integers, Sequences, FiniteSets, TLC

(***************************************************************************)
(* Characters and Python's str methods                                     *)
(***************************************************************************)
LowerAlpha == <<"a","b","c","d","e","f","g","h","i","j","k","l","m",
                "n","o","p","q","r","s","t","u","v","w","x","y","z">>

UpperAlpha == <<"A","B","C","D","E","F","G","H","I","J","K","L","M",
                "N","O","P","Q","R","S","T","U","V","W","X","Y","Z">>

DigitChars == <<"0","1","2","3","4","5","6","7","8","9">>

\* The code points S3 lists keys by (UTF-8 binary order), for the characters used.
Ascii == <<" ", "!", ".", "/">> \o DigitChars \o UpperAlpha \o <<"_">> \o LowerAlpha

Range(s) == { s[i] : i \in DOMAIN s }

OrdTable == [c \in Range(Ascii) |-> CHOOSE i \in DOMAIN Ascii : Ascii[i] = c]

Ord(c) == OrdTable[c]

AlphaChars == Range(LowerAlpha) \cup Range(UpperAlpha)

AlnumChars == AlphaChars \cup Range(DigitChars)

IsAlphaChar(c) == c \in AlphaChars

IsAlnumChar(c) == c \in AlnumChars

IsSpaceChar(c) == c = " "

LowerTable ==
  [c \in Range(UpperAlpha) |-> LowerAlpha[CHOOSE i \in DOMAIN UpperAlpha : UpperAlpha[i] = c]]

UpperTable ==
  [c \in Range(LowerAlpha) |-> UpperAlpha[CHOOSE i \in DOMAIN LowerAlpha : LowerAlpha[i] = c]]

LowerChar(c) == IF c \in DOMAIN LowerTable THEN LowerTable[c] ELSE c

UpperChar(c) == IF c \in DOMAIN UpperTable THEN UpperTable[c] ELSE c

\* str.lower()
Lower(s) == [i \in DOMAIN s |-> LowerChar(s[i])]

\* str.upper()
Upper(s) == [i \in DOMAIN s |-> UpperChar(s[i])]

\* str.startswith(p)
StartsWith(s, p) == Len(s) >= Len(p) /\ SubSeq(s, 1, Len(p)) = p

\* str.endswith(p)
EndsWith(s, p) == Len(s) >= Len(p) /\ SubSeq(s, Len(s) - Len(p) + 1, Len(s)) = p

\* str.replace(old, new) for a non-empty old: leftmost, non-overlapping occurrences.
RECURSIVE Replace(_, _, _)
Replace(s, old, new) ==
  IF Len(s) < Len(old) THEN s
  ELSE IF SubSeq(s, 1, Len(old)) = old
       THEN new \o Replace(SubSeq(s, Len(old) + 1, Len(s)), old, new)
       ELSE <<s[1]>> \o Replace(Tail(s), old, new)

RECURSIVE LStrip(_)
LStrip(s) == IF s # <<>> /\ IsSpaceChar(s[1]) THEN LStrip(Tail(s)) ELSE s

RECURSIVE RStrip(_)
RStrip(s) ==
  IF s # <<>> /\ IsSpaceChar(s[Len(s)]) THEN RStrip(SubSeq(s, 1, Len(s) - 1)) ELSE s

\* str.strip()
Strip(s) == RStrip(LStrip(s))

\* s.split(sep)[-1] for a one-character sep
SplitLast(s, sep) ==
  LET idx == { i \in DOMAIN s : s[i] = sep }
  IN  IF idx = {} THEN s
      ELSE SubSeq(s, (CHOOSE i \in idx : \A j \in idx : j <= i) + 1, Len(s))

\* s.split(sep)[0] for a one-character sep
SplitFirst(s, sep) ==
  LET idx == { i \in DOMAIN s : s[i] = sep }
  IN  IF idx = {} THEN s
      ELSE SubSeq(s, 1, (CHOOSE i \in idx : \A j \in idx : i <= j) - 1)

\* ''.join(c for c in s if c.isalnum() or c == '_')
KeepAlnumUnderscore(s) == SelectSeq(s, LAMBDA c : IsAlnumChar(c) \/ c = "_")

\* str.isalpha(): non-empty and alphabetic throughout
IsAlpha(s) == s # <<>> /\ \A i \in DOMAIN s : IsAlphaChar(s[i])

\* str.capitalize()
Capitalize(s) ==
  IF s = <<>> THEN s ELSE <<UpperChar(s[1])>> \o Lower(Tail(s))

\* str.split(): the maximal runs of non-whitespace characters.
RECURSIVE SplitWords(_, _, _)
SplitWords(s, cur, acc) ==
  IF s = <<>> THEN (IF cur = <<>> THEN acc ELSE Append(acc, cur))
  ELSE IF IsSpaceChar(s[1])
       THEN SplitWords(Tail(s), <<>>, IF cur = <<>> THEN acc ELSE Append(acc, cur))
       ELSE SplitWords(Tail(s), Append(cur, s[1]), acc)

\* pathlib's PurePath.stem: the name without its last suffix; a leading dot or a
\* trailing dot starts no suffix.
Stem(name) ==
  LET idx == { i \in DOMAIN name : name[i] = "." }
      last == CHOOSE i \in idx : \A j \in idx : j <= i
  IN  IF idx = {} THEN name
      ELSE IF last > 1 /\ last < Len(name) THEN SubSeq(name, 1, last - 1) ELSE name

\* Binary (code point) order of keys, as S3 lists them.
RECURSIVE KeyLess(_, _)
KeyLess(a, b) ==
  IF b = <<>> THEN FALSE
  ELSE IF a = <<>> THEN TRUE
  ELSE IF a[1] = b[1] THEN KeyLess(Tail(a), Tail(b))
  ELSE Ord(a[1]) < Ord(b[1])

\* The keys of a set in listing order.
RECURSIVE SortKeys(_)
SortKeys(S) ==
  IF S = {} THEN <<>>
  ELSE LET m == CHOOSE k \in S : \A o \in S \ {k} : KeyLess(k, o)
       IN  <<m>> \o SortKeys(S \ {m})

MP4 == <<".", "m", "p", "4">>

PENDING == <<"p", "e", "n", "d", "i", "n", "g", "/">>

(***************************************************************************)
(* Bounds and the inputs the requests are drawn from                       *)
(***************************************************************************)
\* Uploads accepted by the server in one behaviour (each carries a new video).
MaxVideos == 2

\* Requests served after startup in one behaviour.
MaxRequests == 3

\* Loader runs (push_dataset, populate_database, connect_mongo calls) in one behaviour.
MaxRuns == 2

\* range(1, 4): the connection attempts of connect_mongo.
MaxAttempts == 3

\* The content of every object that was in the bucket before the server started.
DatasetVid == 0

NameHi == <<" ", "H", "i">>

NameHiBang == <<"h", "i", "!">>

\* A name whose cleaned form keeps no letter or digit.
NameUnderscore == <<"_">>

\* The "name" / "new_name" form fields tried.
Names == { NameHi, NameHiBang, NameUnderscore }

\* The admin_session cookie of a request.
Cookies == { "active", "none" }

\* The "username" form field of POST /login.
Usernames == { "admin", "Admin" }

\* The "password" form field of POST /login.
Passwords == { "admin", "" }

\* The "action" form field of /admin/action.
Actions == { "approve", "reject", "other" }

SentenceHiA == <<" ", "h", "i", " ", "a">>

SentenceAbBang == <<"a", "b", "!">>

SentenceBah == <<"B", "A", "H">>

\* The "sentence" form field of /translate (empty: not sent).
Sentences == { <<>>, SentenceHiA, SentenceAbBang, SentenceBah }

\* What the speech recognizer returns for the audio (empty: no audio, or nothing heard).
Heard == { <<>>, <<"b">> }

\* word_tokenize, or the str.split fallback when it raises.
Tokenizers == { "punkt", "split" }

BucketPSL == [k \in { <<"P", "S", "L", "/", "b", ".", "m", "p", "4">>,
                      <<"n", "o", "t", "e", "s", ".", "t", "x", "t">> } |-> 0]

\* What the bucket holds when the server starts.
InitialBuckets == { BucketPSL }

PSL == <<"P", "S", "L">>

DirPsl == <<"p", "s", "l">>

DirGsl == <<"g", "s", "l">>

DirSub == <<"s", "u", "b">>

FileA == <<"a", ".", "m", "p", "4">>

FileUpperA == <<"A", ".", "m", "p", "4">>

FileHi == <<"h", "i", ".", "m", "p", "4">>

FileAB == <<"a", ".", "b", ".", "m", "p", "4">>

FileNotes == <<"n", "o", "t", "e", "s", ".", "t", "x", "t">>

\* What root_path.rglob("*.mp4") yields, as paths relative to the root, in the
\* order it yields them.
Folders ==
  { <<>>,
    << <<DirPsl, FileA>>, <<DirPsl, FileUpperA>> >>,
    << <<DirPsl, DirSub, FileA>>, <<DirPsl, FileA>> >>,
    << <<FileHi>>, <<DirGsl, FileAB>> >>,
    << <<DirGsl, FileAB>> >> }

\* A directory of video_dirs: whether it exists and what os.listdir returns.
Dir(exists, names) == [exists |-> exists, names |-> names]

Listings ==
  { Dir(FALSE, <<>>),
    Dir(TRUE, <<FileA, FileUpperA>>),
    Dir(TRUE, <<FileNotes, FileAB>>),
    Dir(TRUE, <<FileHi>>) }

\* The video_dirs argument of populate_database.
VideoDirs ==
  { <<>> } \cup { <<d>> : d \in Listings }
          \cup { <<Dir(TRUE, <<FileHi>>), Dir(TRUE, <<FileNotes, FileAB>>)>> }

\* The languages argument of populate_database.
LanguageLists == { <<>>, <<PSL>>, <<PSL, Upper(DirGsl), <<"A", "S", "L">> >> }

\* Files cv2 / moviepy cannot open.
UnreadableFiles == { FileUpperA }

\* What S3 does with the file of one loop pass of push_dataset.
S3Outcomes == { "ok", "upload_fails", "head_raises" }

VARIABLES
  bucket,         \* the S3 bucket: object key -> content (a video id)
  video_index,    \* voice_server.video_index: word -> entry
  pending_index,  \* voice_server.pending_index: key -> entry
  S3_AVAILABLE,   \* voice_server.S3_AVAILABLE
  started,        \* the startup event has run
  nextVid,        \* the id of the next uploaded video
  served,         \* requests served so far
  mobileVids,     \* history: videos that arrived through POST /upload
  approvedVids,   \* history: videos an action=approve request was applied to
  last,           \* history: the last request, its S3 calls and its response
  collection,     \* push_dataset_to_s3.collection is set
  mongo_docs,     \* the MongoDB collection sign_videos.videos
  sqlite_rows,    \* the SQLite table videos
  classified,     \* history: (routine, filename, word, type) of every record made
  runs,           \* loader runs so far
  run             \* history: the last loader run and its inputs

serverVars == <<video_index, pending_index, S3_AVAILABLE, started, nextVid, served,
                mobileVids, approvedVids>>

loaderVars == <<collection, mongo_docs, sqlite_rows, classified, runs, run>>

vars == <<bucket, last, serverVars, loaderVars>>

(***************************************************************************)
(* The object store                                                        *)
(***************************************************************************)
EmptyMap == [k \in {} |-> 0]

Put(f, k, v) == [y \in (DOMAIN f) \cup {k} |-> IF y = k THEN v ELSE f[y]]

Del(f, k) == [y \in (DOMAIN f) \ {k} |-> f[y]]

\* One S3 call of a request, as logged in last.calls (dst: the target of a copy).
Call(name, key, dst, ok) == [call |-> name, key |-> key, dst |-> dst, ok |-> ok]

\* copy_object: fails on a transport/service error (F), on a missing source and
\* on a copy of an object onto itself.
CopyObject(b, src, dst, F) ==
  IF "copy" \notin F /\ src \in DOMAIN b /\ src # dst
  THEN [ok |-> TRUE, bucket |-> Put(b, dst, b[src])]
  ELSE [ok |-> FALSE, bucket |-> b]

\* delete_object: deleting a missing key succeeds.
DeleteObject(b, key, F) ==
  IF "delete" \notin F
  THEN [ok |-> TRUE, bucket |-> Del(b, key)]
  ELSE [ok |-> FALSE, bucket |-> b]

\* upload_file
UploadFile(b, key, vid, F) ==
  IF "upload" \notin F
  THEN [ok |-> TRUE, bucket |-> Put(b, key, vid)]
  ELSE [ok |-> FALSE, bucket |-> b]

\* head_object: raises for a missing key (404) and for any other error.
HeadObject(b, key, F) ==
  IF "head" \in F THEN "error"
  ELSE IF key \in DOMAIN b THEN "found" ELSE "notfound"

(***************************************************************************)
(* voice_server.py: the indices                                            *)
(***************************************************************************)
UrlPrefix == <<"https://BUCKET.s3.REGION.amazonaws.com/">>

get_public_url(key) == UrlPrefix \o key

ClipType(word) == IF Len(word) > 1 THEN "word" ELSE "letter"

\* filename.replace('.mp4', '').lower().replace('_', ' ').strip()
IndexWord(filename) ==
  Strip(Replace(Lower(Replace(filename, MP4, <<>>)), <<"_">>, <<" ">>))

PendingEntry(key) ==
  [key |-> key, filename |-> SplitLast(key, "/"), url |-> get_public_url(key)]

ApprovedEntry(word, key) ==
  [word |-> word, key |-> key, url |-> get_public_url(key), type |-> ClipType(word)]

\* The loop over the listing; the LastModified and Size of an object are not modelled.
RECURSIVE IndexLoop(_, _, _)
IndexLoop(keys, v_idx, p_idx) ==
  IF keys = <<>> THEN [v |-> v_idx, p |-> p_idx]
  ELSE LET key == Head(keys)
           word == IndexWord(SplitLast(key, "/"))
       IN  IF ~EndsWith(key, MP4) THEN IndexLoop(Tail(keys), v_idx, p_idx)
           ELSE IF StartsWith(key, PENDING)
                THEN IndexLoop(Tail(keys), v_idx, Put(p_idx, key, PendingEntry(key)))
                ELSE IF word # <<>>
                     THEN IndexLoop(Tail(keys), Put(v_idx, word, ApprovedEntry(word, key)), p_idx)
                     ELSE IndexLoop(Tail(keys), v_idx, p_idx)

\* A refresh that starts from the old indices instead of empty ones.
index_s3_files_merging(b, available, listOk, v_old, p_old) ==
  IF ~available \/ ~listOk THEN [v |-> v_old, p |-> p_old]
  ELSE IndexLoop(SortKeys(DOMAIN b), v_old, p_old)

\* index_s3_files: the new indices; the old ones when S3 is off or the listing raises.
index_s3_files(b, available, listOk, v_old, p_old) ==
  IF ~available \/ ~listOk THEN [v |-> v_old, p |-> p_old]
  ELSE IndexLoop(SortKeys(DOMAIN b), EmptyMap, EmptyMap)

\* A check that lets every request through.
check_auth_anyone(cookie) == TRUE

check_auth(cookie) == cookie = "active"

\* login: the redirect and the value of the admin_session cookie it sets ("": none).
login(username, password) ==
  IF username = "admin" /\ password = "admin"
  THEN [resp |-> "/admin", set_cookie |-> "active"]
  ELSE [resp |-> "/login?error", set_cookie |-> ""]

\* name.strip().lower().replace(' ', '_')
BaseName(name) == Replace(Lower(Strip(name)), <<" ">>, <<"_">>)

\* The cleaned name the upload and rename handlers build the filename from.
CleanName(name) == KeepAlnumUnderscore(BaseName(name))

\* check_duplicate: "approved", "pending" or "none"
check_duplicate(name, v_idx, p_idx) ==
  LET base_name == BaseName(name)
      search_word == Replace(base_name, <<"_">>, <<" ">>)
      target_filename == base_name \o MP4
  IN  IF search_word \in DOMAIN v_idx THEN "approved"
      ELSE IF \E p_key \in DOMAIN p_idx : EndsWith(p_key, <<"/">> \o target_filename)
           THEN "pending"
           ELSE "none"

(***************************************************************************)
(* voice_server.py: the request handlers.  A handler yields the bucket and *)
(* the indices it leaves, the S3 calls it made and its response.  F is the *)
(* set of S3 calls that raise a transport/service error in this request.   *)
(***************************************************************************)
Result(resp, msg, b, v, p, calls) ==
  [resp |-> resp, msg |-> msg, bucket |-> b, v |-> v, p |-> p, calls |-> calls]

\* A response that touched nothing.
Untouched(resp, msg) == Result(resp, msg, bucket, video_index, pending_index, <<>>)

\* except Exception: the bucket as the calls so far left it, the indices as they were.
Caught(resp, b, calls) == Result(resp, "exception", b, video_index, pending_index, calls)

\* index_s3_files() and the handler's final response
Refreshed(resp, msg, b, calls, F) ==
  LET idx == index_s3_files(b, S3_AVAILABLE, "list" \notin F, video_index, pending_index)
  IN  Result(resp, msg, b, idx.v, idx.p,
             Append(calls, Call("list", <<>>, <<>>, "list" \notin F)))

admin_action(cookie, key, action, F) ==
  IF ~check_auth(cookie) THEN Untouched("/login", "")
  ELSE IF ~S3_AVAILABLE THEN Untouched("500", "S3 Offline")
  ELSE IF action = "approve"
  THEN LET filename == SplitLast(key, "/")
           copy == CopyObject(bucket, key, filename, F)
           c1 == <<Call("copy", key, filename, copy.ok)>>
           del == DeleteObject(copy.bucket, key, F)
           c2 == Append(c1, Call("delete", key, <<>>, del.ok))
       IN  IF ~copy.ok THEN Caught("/admin?error", bucket, c1)
           ELSE IF ~del.ok THEN Caught("/admin?error", copy.bucket, c2)
           ELSE Refreshed("/admin", "", del.bucket, c2, F)
  ELSE IF action = "reject"
  THEN LET del == DeleteObject(bucket, key, F)
           c1 == <<Call("delete", key, <<>>, del.ok)>>
       IN  IF ~del.ok THEN Caught("/admin?error", bucket, c1)
           ELSE Refreshed("/admin", "", del.bucket, c1, F)
  ELSE Refreshed("/admin", "", bucket, <<>>, F)

admin_delete(cookie, key, F) ==
  IF ~check_auth(cookie) THEN Untouched("/login", "")
  ELSE IF ~S3_AVAILABLE THEN Untouched("500", "S3 Offline")
  ELSE LET del == DeleteObject(bucket, key, F)
           c1 == <<Call("delete", key, <<>>, del.ok)>>
       IN  IF ~del.ok THEN Caught("/admin?error", bucket, c1)
           ELSE Refreshed("/admin?success", "Deleted", del.bucket, c1, F)

admin_edit(cookie, old_key, new_name, F) ==
  IF ~check_auth(cookie) THEN Untouched("/login", "")
  ELSE IF ~S3_AVAILABLE THEN Untouched("500", "S3 Offline")
  ELSE LET new_filename == CleanName(new_name) \o MP4
           head == HeadObject(bucket, new_filename, F)
           c0 == <<Call("head", new_filename, <<>>, head # "error")>>
           copy == CopyObject(bucket, old_key, new_filename, F)
           c1 == Append(c0, Call("copy", old_key, new_filename, copy.ok))
           del == DeleteObject(copy.bucket, old_key, F)
           c2 == Append(c1, Call("delete", old_key, <<>>, del.ok))
       IN  IF new_filename = old_key THEN Untouched("/admin", "")
           \* head_object returned: the name is taken
           ELSE IF head = "found"
           THEN Result("/admin?error", "taken", bucket, video_index, pending_index, c0)
           \* bare except: a 404 and any other error alike mean "doesn't exist"
           ELSE IF ~copy.ok THEN Caught("/admin?error", bucket, c1)
           ELSE IF ~del.ok THEN Caught("/admin?error", copy.bucket, c2)
           ELSE Refreshed("/admin?success", "Renamed", del.bucket, c2, F)

admin_upload(cookie, name, vid, F) ==
  IF ~check_auth(cookie) THEN Untouched("/login", "")
  ELSE IF ~S3_AVAILABLE THEN Untouched("500", "S3 Offline")
  ELSE LET err == check_duplicate(name, video_index, pending_index)
           filename == CleanName(name) \o MP4
           up == UploadFile(bucket, filename, vid, F)
           c1 == <<Call("upload", filename, <<>>, up.ok)>>
       IN  IF err # "none" THEN Untouched("/admin?error", err)
           ELSE IF ~up.ok THEN Caught("/admin?error", bucket, c1)
           ELSE Refreshed("/admin?success", "Uploaded", up.bucket, c1, F)

\* The entry's date and size ("New") are not modelled.
mobile_upload(name, vid, F) ==
  IF ~S3_AVAILABLE THEN Untouched("500", "S3 Offline")
  ELSE LET err == check_duplicate(name, video_index, pending_index)
           filename == CleanName(name) \o MP4
           key == PENDING \o filename
           up == UploadFile(bucket, key, vid, F)
           c1 == <<Call("upload", key, <<>>, up.ok)>>
           entry == [key |-> key, filename |-> filename, url |-> get_public_url(key)]
       IN  IF err # "none" THEN Untouched("400", err)
           ELSE IF ~up.ok THEN Caught("500", bucket, c1)
           ELSE Result("200", "pending", up.bucket, video_index,
                       Put(pending_index, key, entry), c1)

(***************************************************************************)
(* voice_server.py: /translate                                             *)
(***************************************************************************)
\* word_tokenize on the texts tried here: it splits at whitespace and makes a
\* token of each "!".
RECURSIVE PadPunct(_)
PadPunct(s) ==
  IF s = <<>> THEN s
  ELSE IF s[1] = "!" THEN <<" ", "!", " ">> \o PadPunct(Tail(s))
  ELSE <<s[1]>> \o PadPunct(Tail(s))

Tokenize(processed, tok) ==
  IF tok = "punkt" THEN SplitWords(PadPunct(processed), <<>>, <<>>)
  ELSE SplitWords(processed, <<>>, <<>>)

\* for char in word: the entries of the characters the index has
RECURSIVE LetterLoop(_, _, _)
LetterLoop(word, v_idx, videos) ==
  IF word = <<>> THEN videos
  ELSE LET char == <<word[1]>>
       IN  IF char \in DOMAIN v_idx
           THEN LetterLoop(Tail(word), v_idx,
                  Append(videos, [v_idx[char] EXCEPT !.type = "letter", !.word = Upper(char)]))
           ELSE LetterLoop(Tail(word), v_idx, videos)

\* A loop without the word lookup: every word is spelled.
RECURSIVE WordLoopSpelling(_, _, _)
WordLoopSpelling(lower_words, v_idx, videos) ==
  IF lower_words = <<>> THEN videos
  ELSE WordLoopSpelling(Tail(lower_words), v_idx,
                        LetterLoop(Head(lower_words), v_idx, videos))

\* for word in lower_words
RECURSIVE WordLoop(_, _, _)
WordLoop(lower_words, v_idx, videos) ==
  IF lower_words = <<>> THEN videos
  ELSE LET word == Head(lower_words)
       IN  IF word \in DOMAIN v_idx
           THEN WordLoop(Tail(lower_words), v_idx, Append(videos, v_idx[word]))
           ELSE WordLoop(Tail(lower_words), v_idx, LetterLoop(word, v_idx, videos))

\* translate: the text, the keywords and the videos of the response
translate(sentence, heard, tok, v_idx) ==
  LET text == IF sentence = <<>> THEN heard
              ELSE IF heard = <<>> THEN Strip(sentence)
              ELSE heard \o <<" ">> \o Strip(sentence)
      processed == Capitalize(text)
      keywords == SelectSeq(Tokenize(processed, tok), IsAlpha)
      lower_words == [i \in DOMAIN keywords |-> Lower(keywords[i])]
  IN  IF text = <<>> THEN [text |-> <<>>, keywords |-> <<>>, videos |-> <<>>]
      ELSE [text |-> processed, keywords |-> keywords,
            videos |-> WordLoop(lower_words, v_idx, <<>>)]

(***************************************************************************)
(* push_dataset_to_s3.py                                                   *)
(***************************************************************************)
NoRun ==
  [op |-> "none", dry_run |-> FALSE, was_set |-> FALSE, firstOk |-> 0,
   ret |-> FALSE, attempts |-> 0, waits |-> 0]

\* A loop that goes on to a fourth attempt.
RECURSIVE ConnectLoopOneMore(_, _, _)
ConnectLoopOneMore(attempt, firstOk, waits) ==
  IF attempt > MaxAttempts + 1
  THEN [ret |-> FALSE, collection |-> FALSE, attempts |-> attempt - 1, waits |-> waits]
  ELSE IF attempt >= firstOk
       THEN [ret |-> TRUE, collection |-> TRUE, attempts |-> attempt, waits |-> waits]
       ELSE ConnectLoopOneMore(attempt + 1, firstOk,
                               IF attempt < 3 THEN waits + 1 ELSE waits)

\* for attempt in range(1, 4): the ping of attempt number firstOk is the first to
\* succeed; a failed attempt other than the third is followed by a wait.
RECURSIVE ConnectLoop(_, _, _)
ConnectLoop(attempt, firstOk, waits) ==
  IF attempt > MaxAttempts
  THEN [ret |-> FALSE, collection |-> FALSE, attempts |-> attempt - 1, waits |-> waits]
  ELSE IF attempt >= firstOk
       THEN [ret |-> TRUE, collection |-> TRUE, attempts |-> attempt, waits |-> waits]
       ELSE ConnectLoop(attempt + 1, firstOk, IF attempt < 3 THEN waits + 1 ELSE waits)

connect_mongo(is_set, firstOk) ==
  IF is_set THEN [ret |-> TRUE, collection |-> TRUE, attempts |-> 0, waits |-> 0]
  ELSE ConnectLoop(1, firstOk, 0)

\* cv2 (and moviepy in populate_database): duration and resolution, or None for both.
video_metadata(filename) ==
  IF filename \in UnreadableFiles
  THEN [duration |-> "None", resolution |-> "None"]
  ELSE [duration |-> "seconds", resolution |-> "WxH"]

None == <<>>

PushUrlPrefix == <<"https://BUCKET.s3.amazonaws.com/">>

\* upload_file: the URL or None, the bucket, and whether s3_exists re-raised.
upload_file(b, key, dry_run, s3_ok, outcome) ==
  IF ~s3_ok THEN [url |-> None, bucket |-> b, raised |-> FALSE]
  ELSE IF outcome = "head_raises" THEN [url |-> None, bucket |-> b, raised |-> TRUE]
  ELSE IF key \in DOMAIN b THEN [url |-> PushUrlPrefix \o key, bucket |-> b, raised |-> FALSE]
  ELSE IF dry_run THEN [url |-> PushUrlPrefix \o key, bucket |-> b, raised |-> FALSE]
  ELSE IF outcome = "upload_fails" THEN [url |-> None, bucket |-> b, raised |-> FALSE]
  ELSE [url |-> PushUrlPrefix \o key, bucket |-> Put(b, key, DatasetVid), raised |-> FALSE]

\* collection.find_one({"word": word, "language": language})
FindOne(docs, word, language) ==
  \E i \in DOMAIN docs : docs[i].word = word /\ docs[i].language = language

\* An upsert that always inserts.
ReplaceOneInserting(docs, doc) == Append(docs, doc)

\* ReplaceOne({"word": ..., "language": ...}, doc, upsert=True)
ReplaceOne(docs, doc) ==
  LET hits == { i \in DOMAIN docs :
                  docs[i].word = doc.word /\ docs[i].language = doc.language }
  IN  IF hits = {} THEN Append(docs, doc)
      ELSE [docs EXCEPT ![CHOOSE i \in hits : \A j \in hits : i <= j] = doc]

\* collection.bulk_write(mongo_ops), ordered: op number failAt raises (0: none does).
RECURSIVE BulkWrite(_, _, _, _)
BulkWrite(docs, mongo_ops, i, failAt) ==
  IF i > Len(mongo_ops) \/ i = failAt THEN docs
  ELSE BulkWrite(ReplaceOne(docs, mongo_ops[i]), mongo_ops, i + 1, failAt)

\* for file_path in root_path.rglob("*.mp4"): the bucket and the operations
\* collected (made: the file and the type behind each operation); total_uploaded
\* and total_skipped are only logged and not modelled.
RECURSIVE PushLoop(_, _, _, _, _, _, _, _, _)
PushLoop(files, i, b, mongo_ops, made, dry_run, s3_ok, mongo_ok, outcomes) ==
  IF i > Len(files)
  THEN [bucket |-> b, mongo_ops |-> mongo_ops, made |-> made, raised |-> FALSE]
  ELSE LET parts == files[i]
           filename == parts[Len(parts)]
           language == IF Len(parts) > 1 THEN Upper(parts[1]) ELSE PSL
           word == Lower(Stem(filename))
           key == language \o <<"/">> \o word \o MP4
           up == upload_file(b, key, dry_run, s3_ok, outcomes[i])
           meta == video_metadata(filename)
           doc == [word |-> word, language |-> language, file_path |-> up.url,
                   type |-> ClipType(word),
                   duration |-> meta.duration, resolution |-> meta.resolution]
           entry == [routine |-> "push_dataset", filename |-> filename,
                     word |-> word, type |-> doc.type]
       IN  IF up.raised
           THEN [bucket |-> b, mongo_ops |-> mongo_ops, made |-> made, raised |-> TRUE]
           ELSE IF up.url = None \/ ~mongo_ok \/ FindOne(mongo_docs, word, language)
           THEN PushLoop(files, i + 1, up.bucket, mongo_ops, made,
                         dry_run, s3_ok, mongo_ok, outcomes)
           ELSE PushLoop(files, i + 1, up.bucket, Append(mongo_ops, doc),
                         Append(made, entry), dry_run, s3_ok, mongo_ok, outcomes)

\* push_dataset: an exception out of the loop ends the run before bulk_write.
push_dataset(files, dry_run, s3_ok, firstOk, outcomes, failAt) ==
  LET conn == connect_mongo(collection, firstOk)
      loop == PushLoop(files, 1, bucket, <<>>, <<>>, dry_run, s3_ok, conn.ret, outcomes)
      written == IF loop.raised THEN 0
                 ELSE IF failAt = 0 \/ failAt > Len(loop.mongo_ops)
                      THEN Len(loop.mongo_ops) ELSE failAt - 1
  IN  [conn |-> conn, bucket |-> loop.bucket,
       docs |-> IF loop.raised THEN mongo_docs
                ELSE BulkWrite(mongo_docs, loop.mongo_ops, 1, failAt),
       made |-> { loop.made[i] : i \in 1..written }]

(***************************************************************************)
(* populate_database.py                                                    *)
(***************************************************************************)
\* The uniqueness the videos table enforces; the schema is not in the repository.
SameVideo(r1, r2) == r1.word = r2.word /\ r1.language = r2.language

\* INSERT OR REPLACE: the rows the new one conflicts with go, the new one is added.
InsertOrReplace(rows, row) ==
  Append(SelectSeq(rows, LAMBDA r : ~SameVideo(r, row)), row)

\* for filename in os.listdir(video_dir)
RECURSIVE FileLoop(_, _, _, _, _)
FileLoop(names, i, language, rows, made) ==
  IF i > Len(names) THEN [rows |-> rows, made |-> made]
  ELSE LET filename == names[i]
           word == Lower(SplitFirst(filename, "."))
           video_type == ClipType(word)
           meta == video_metadata(filename)
           row == [word |-> word, language |-> language,
                   file_path |-> <<"/videos/">> \o language \o <<"/">> \o filename,
                   type |-> video_type,
                   duration |-> meta.duration, resolution |-> meta.resolution]
           entry == [routine |-> "populate_database", filename |-> filename,
                     word |-> word, type |-> video_type]
       IN  IF EndsWith(filename, MP4)
           THEN FileLoop(names, i + 1, language, InsertOrReplace(rows, row),
                         made \cup {entry})
           ELSE FileLoop(names, i + 1, language, rows, made)

\* for language, video_dir in zip(languages, video_dirs)
RECURSIVE DirLoop(_, _, _, _, _)
DirLoop(video_dirs, languages, i, rows, made) ==
  IF i > Len(video_dirs) \/ i > Len(languages) THEN [rows |-> rows, made |-> made]
  ELSE IF ~video_dirs[i].exists THEN DirLoop(video_dirs, languages, i + 1, rows, made)
  ELSE LET done == FileLoop(video_dirs[i].names, 1, languages[i], rows, made)
       IN  DirLoop(video_dirs, languages, i + 1, done.rows, done.made)

\* populate_database: nothing is committed when sqlite3 raises.
populate_database(video_dirs, languages, dbError) ==
  IF video_dirs = <<>> \/ languages = <<>> \/ dbError
  THEN [rows |-> sqlite_rows, made |-> {}]
  ELSE DirLoop(video_dirs, languages, 1, sqlite_rows, {})

(***************************************************************************)
(* The server's steps                                                      *)
(***************************************************************************)
NoRequest ==
  [op |-> "none", cookie |-> "", key |-> <<>>, name |-> <<>>, action |-> "",
   username |-> "", password |-> "", set_cookie |-> "",
   resp |-> "", msg |-> "", calls |-> <<>>,
   text |-> <<>>, keywords |-> <<>>, videos |-> <<>>]

\* The keys a form can carry: those of the bucket and those an index still shows.
RequestKeys ==
  (DOMAIN bucket) \cup (DOMAIN pending_index)
    \cup { video_index[w].key : w \in DOMAIN video_index }

\* The S3 calls that may raise in a request: a request that is turned away before
\* its first S3 call has none.
Failures(cookie, callNames) ==
  IF check_auth(cookie) /\ S3_AVAILABLE THEN SUBSET callNames ELSE { {} }

\* The first S3 call of the handler was made and succeeded.
FirstCallOk(r) == r.calls # <<>> /\ r.calls[1].ok

\* The server takes requests once it has started.
Serving == started /\ served < MaxRequests

Serve(r, req) ==
  /\ served' = served + 1
  /\ bucket' = r.bucket
  /\ video_index' = r.v
  /\ pending_index' = r.p
  /\ last' = [req EXCEPT !.resp = r.resp, !.msg = r.msg, !.calls = r.calls]
  /\ UNCHANGED <<S3_AVAILABLE, started, loaderVars>>

\* @app.on_event("startup")
Startup ==
  /\ ~started
  /\ started' = TRUE
  /\ \E listOk \in BOOLEAN :
       \E idx \in { index_s3_files(bucket, S3_AVAILABLE, listOk,
                                    video_index, pending_index) } :
           /\ video_index' = idx.v
           /\ pending_index' = idx.p
           /\ last' = [NoRequest EXCEPT !.op = "startup",
                         !.calls = IF S3_AVAILABLE
                                   THEN <<Call("list", <<>>, <<>>, listOk)>> ELSE <<>>]
  /\ UNCHANGED <<bucket, S3_AVAILABLE, nextVid, served, mobileVids, approvedVids,
                 loaderVars>>

AdminAction ==
  /\ Serving
  /\ \E cookie \in Cookies, key \in RequestKeys, action \in Actions :
     \E F \in Failures(cookie, {"copy", "delete", "list"}) :
     \E r \in { admin_action(cookie, key, action, F) } :
       /\ Serve(r, [NoRequest EXCEPT !.op = "admin_action", !.cookie = cookie,
                                     !.key = key, !.action = action])
       /\ approvedVids' =
            IF action = "approve" /\ FirstCallOk(r) /\ StartsWith(key, PENDING)
            THEN approvedVids \cup {bucket[key]} ELSE approvedVids
       /\ UNCHANGED <<nextVid, mobileVids>>

AdminDelete ==
  /\ Serving
  /\ \E cookie \in Cookies, key \in RequestKeys :
     \E F \in Failures(cookie, {"delete", "list"}) :
     \E r \in { admin_delete(cookie, key, F) } :
       /\ Serve(r, [NoRequest EXCEPT !.op = "admin_delete", !.cookie = cookie,
                                     !.key = key])
       /\ UNCHANGED <<nextVid, mobileVids, approvedVids>>

AdminEdit ==
  /\ Serving
  /\ \E cookie \in Cookies, old_key \in RequestKeys, new_name \in Names :
     \E F \in Failures(cookie, {"head", "copy", "delete", "list"}) :
     \E r \in { admin_edit(cookie, old_key, new_name, F) } :
       /\ Serve(r, [NoRequest EXCEPT !.op = "admin_edit", !.cookie = cookie,
                                     !.key = old_key, !.name = new_name])
       /\ UNCHANGED <<nextVid, mobileVids, approvedVids>>

\* The uploaded file is a video the bucket has not seen: nextVid.
AdminUpload ==
  /\ Serving
  /\ nextVid <= MaxVideos
  /\ \E cookie \in Cookies, name \in Names :
     \E F \in Failures(cookie, {"upload", "list"}) :
     \E r \in { admin_upload(cookie, name, nextVid, F) } :
       /\ Serve(r, [NoRequest EXCEPT !.op = "admin_upload", !.cookie = cookie,
                                     !.name = name])
       /\ nextVid' = IF FirstCallOk(r) THEN nextVid + 1 ELSE nextVid
       /\ UNCHANGED <<mobileVids, approvedVids>>

MobileUpload ==
  /\ Serving
  /\ nextVid <= MaxVideos
  /\ \E name \in Names, F \in Failures("active", {"upload"}) :
     \E r \in { mobile_upload(name, nextVid, F) } :
       /\ Serve(r, [NoRequest EXCEPT !.op = "mobile_upload", !.name = name])
       /\ nextVid' = IF FirstCallOk(r) THEN nextVid + 1 ELSE nextVid
       /\ mobileVids' = IF FirstCallOk(r) THEN mobileVids \cup {nextVid} ELSE mobileVids
       /\ UNCHANGED approvedVids

Login ==
  /\ Serving
  /\ served' = served + 1
  /\ \E username \in Usernames, password \in Passwords :
       \E r \in { login(username, password) } :
           last' = [NoRequest EXCEPT !.op = "login", !.username = username,
                                     !.password = password, !.resp = r.resp,
                                     !.set_cookie = r.set_cookie]
  /\ UNCHANGED <<bucket, video_index, pending_index, S3_AVAILABLE, started, nextVid,
                 mobileVids, approvedVids, loaderVars>>

Translate ==
  /\ Serving
  /\ served' = served + 1
  /\ \E sentence \in Sentences, heard \in Heard, tok \in Tokenizers :
       \E t \in { translate(sentence, heard, tok, video_index) } :
           last' = [NoRequest EXCEPT !.op = "translate", !.name = sentence, !.resp = "200",
                                     !.text = t.text, !.keywords = t.keywords,
                                     !.videos = t.videos]
  /\ UNCHANGED <<bucket, video_index, pending_index, S3_AVAILABLE, started, nextVid,
                 mobileVids, approvedVids, loaderVars>>

LoaderIdle ==
  /\ collection = FALSE
  /\ mongo_docs = <<>>
  /\ sqlite_rows = <<>>
  /\ classified = {}
  /\ runs = 0
  /\ run = NoRun

Init ==
  /\ bucket \in InitialBuckets
  /\ video_index = EmptyMap
  /\ pending_index = EmptyMap
  /\ S3_AVAILABLE \in BOOLEAN
  /\ started = FALSE
  /\ nextVid = 1
  /\ served = 0
  /\ mobileVids = {}
  /\ approvedVids = {}
  /\ last = NoRequest
  /\ LoaderIdle

Next ==
  \/ Startup
  \/ AdminAction
  \/ AdminDelete
  \/ AdminEdit
  \/ AdminUpload
  \/ MobileUpload
  \/ Login

Spec == Init /\ [][Next]_vars

KeyA == <<"a", ".", "m", "p", "4">>

KeyB == <<"b", ".", "m", "p", "4">>

KeyHi == <<"h", "i", ".", "m", "p", "4">>

KeyPslB == <<"P", "S", "L", "/", "b", ".", "m", "p", "4">>

KeyAB == <<"A", "_", "b", ".", "m", "p", "4">>

\* The buckets /translate is tried on.
TranslateBuckets ==
  { [k \in S |-> DatasetVid] :
      S \in { {}, {KeyA, KeyB, KeyHi}, {KeyPslB, KeyAB}, {KeyA, PENDING \o KeyHi} } }

InitTranslate ==
  /\ bucket \in TranslateBuckets
  /\ video_index = EmptyMap
  /\ pending_index = EmptyMap
  /\ S3_AVAILABLE \in BOOLEAN
  /\ started = FALSE
  /\ nextVid = 1
  /\ served = 0
  /\ mobileVids = {}
  /\ approvedVids = {}
  /\ last = NoRequest
  /\ LoaderIdle

NextTranslate ==
  \/ Startup
  \/ Translate

\* The lookup API on its own: the server starts on a bucket and translates.
SpecTranslate == InitTranslate /\ [][NextTranslate]_vars
(***************************************************************************)
(* The loaders' steps                                                      *)
(***************************************************************************)
\* python push_dataset_to_s3.py [--dry-run], or a call of push_dataset
PushDataset ==
  /\ runs < MaxRuns
  /\ runs' = runs + 1
  /\ \E files \in Folders, dry_run \in BOOLEAN, s3_ok \in BOOLEAN,
        firstOk \in 1..(MaxAttempts + 2) :
     \E outcomes \in [1..Len(files) -> IF s3_ok THEN S3Outcomes ELSE {"ok"}],
        failAt \in 0..Len(files) :
       \E r \in { push_dataset(files, dry_run, s3_ok, firstOk, outcomes, failAt) } :
           /\ bucket' = r.bucket
           /\ mongo_docs' = r.docs
           /\ collection' = r.conn.collection
           /\ classified' = classified \cup r.made
           /\ run' = [op |-> "push_dataset", dry_run |-> dry_run,
                      was_set |-> collection, firstOk |-> firstOk,
                      ret |-> r.conn.ret, attempts |-> r.conn.attempts,
                      waits |-> r.conn.waits]
  /\ UNCHANGED <<sqlite_rows, last, serverVars>>

\* A call of connect_mongo on its own
ConnectMongo ==
  /\ runs < MaxRuns
  /\ runs' = runs + 1
  /\ \E firstOk \in 1..(MaxAttempts + 2) :
       \E conn \in { connect_mongo(collection, firstOk) } :
           /\ collection' = conn.collection
           /\ run' = [op |-> "connect_mongo", dry_run |-> FALSE,
                      was_set |-> collection, firstOk |-> firstOk,
                      ret |-> conn.ret, attempts |-> conn.attempts,
                      waits |-> conn.waits]
  /\ UNCHANGED <<bucket, mongo_docs, sqlite_rows, classified, last, serverVars>>

\* The process ends: the module's globals are gone, the stores stay.
Exit ==
  /\ collection
  /\ collection' = FALSE
  /\ run' = [NoRun EXCEPT !.op = "exit"]
  /\ UNCHANGED <<bucket, mongo_docs, sqlite_rows, classified, runs, last, serverVars>>

\* python populate_database.py, or a call of populate_database
PopulateDatabase ==
  /\ runs < MaxRuns
  /\ runs' = runs + 1
  /\ \E video_dirs \in VideoDirs, languages \in LanguageLists, dbError \in BOOLEAN :
       \E r \in { populate_database(video_dirs, languages, dbError) } :
           /\ sqlite_rows' = r.rows
           /\ classified' = classified \cup r.made
           /\ run' = [NoRun EXCEPT !.op = "populate_database"]
  /\ UNCHANGED <<bucket, mongo_docs, collection, last, serverVars>>

InitLoader ==
  /\ bucket = EmptyMap
  /\ video_index = EmptyMap
  /\ pending_index = EmptyMap
  /\ S3_AVAILABLE = TRUE
  /\ started = FALSE
  /\ nextVid = 1
  /\ served = 0
  /\ mobileVids = {}
  /\ approvedVids = {}
  /\ last = NoRequest
  /\ LoaderIdle

NextLoader ==
  \/ PushDataset
  \/ ConnectMongo
  \/ Exit
  \/ PopulateDatabase

SpecLoader == InitLoader /\ [][NextLoader]_vars

(***************************************************************************)
(* Properties of the server                                                *)
(***************************************************************************)
\* The last step ended with an index refresh whose listing did not raise.
RefreshCompleted ==
  /\ last.calls # <<>>
  /\ last.calls[Len(last.calls)].call = "list"
  /\ last.calls[Len(last.calls)].ok

PendingKeysListed == { k \in DOMAIN bucket : EndsWith(k, MP4) /\ StartsWith(k, PENDING) }

ApprovedKeysListed == { k \in DOMAIN bucket : EndsWith(k, MP4) /\ ~StartsWith(k, PENDING) }

\* C1: after index_s3_files completes without error, the pending index has exactly
\* the listed keys that end in ".mp4" and start with "pending/", the approved index
\* has exactly the non-empty words derived from the other listed ".mp4" keys, and
\* every entry is that of an object still listed (nothing older survives).
C1_IndexRebuilt ==
  RefreshCompleted =>
    /\ DOMAIN pending_index = PendingKeysListed
    /\ DOMAIN video_index =
         { IndexWord(SplitLast(k, "/")) : k \in ApprovedKeysListed } \ { <<>> }
    /\ \A k \in DOMAIN pending_index : pending_index[k].key = k
    /\ \A w \in DOMAIN video_index :
         /\ video_index[w].key \in ApprovedKeysListed
         /\ IndexWord(SplitLast(video_index[w].key, "/")) = w
         /\ video_index[w].word = w

\* A refresh ran over a bucket with a pending video, an approved video and an object
\* that is no video, after a request had removed an object an index showed.
C1_Witness ==
  /\ RefreshCompleted
  /\ last.op = "admin_delete"
  /\ last.key \notin DOMAIN bucket
  /\ DOMAIN pending_index # {}
  /\ DOMAIN video_index # {}
  /\ \E k \in DOMAIN bucket : ~EndsWith(k, MP4)

\* C3: a video that came in through POST /upload sits only under "pending/" and is
\* behind no entry of the approved index, until an action=approve request has been
\* applied to its pending key.
C3_ModerationGating ==
  \A v \in mobileVids \ approvedVids :
    /\ \A k \in DOMAIN bucket : bucket[k] = v => StartsWith(k, PENDING)
    /\ \A w \in DOMAIN video_index :
         video_index[w].key \in DOMAIN bucket => bucket[video_index[w].key] # v

\* The request got past the session check and the S3 check of its handler.
Admitted(req) ==
  /\ S3_AVAILABLE
  /\ req.op \in {"admin_action", "admin_delete", "admin_edit", "admin_upload"}
       => check_auth(req.cookie)

\* A video of either index has this filename (before the request).
FilenameIndexed(filename) ==
  \/ \E w \in DOMAIN video_index : SplitLast(video_index[w].key, "/") = filename
  \/ \E k \in DOMAIN pending_index : pending_index[k].filename = filename

\* C4: an upload whose filename (<cleaned name>.mp4) belongs to a video of the
\* approved or of the pending index is rejected by check_duplicate, and the bucket
\* is left as it was.
C4_UploadNeverOverwrites ==
  [][ ( /\ served' # served
        /\ last'.op \in {"admin_upload", "mobile_upload"}
        /\ Admitted(last')
        /\ FilenameIndexed(CleanName(last'.name) \o MP4) )
      => ( /\ last'.msg \in {"approved", "pending"}
           /\ last'.calls = <<>>
           /\ bucket' = bucket ) ]_vars

IsErrorResponse(req) ==
  IF req.op = "mobile_upload" THEN req.resp = "500" ELSE req.resp = "/admin?error"

\* C8: when a copy, delete, upload or head call of a handler fails, the handler
\* answers with its error response, makes no further S3 call (no retry, nothing
\* compensating, no refresh) and leaves both indices as they were.
C8_CatchAndReport ==
  [][ \A i \in DOMAIN last'.calls :
        ( /\ served' # served
          /\ last'.calls[i].call # "list"
          /\ ~last'.calls[i].ok )
        => ( /\ IsErrorResponse(last')
             /\ i = Len(last'.calls)
             /\ video_index' = video_index
             /\ pending_index' = pending_index ) ]_vars

\* C10: admin_edit never overwrites: with an object at the target key it answers
\* "already taken" and neither copies nor deletes; with the target equal to old_key
\* it makes no S3 call; and when it succeeds the content of old_key is at the target
\* and old_key is gone.
C10_EditNeverOverwrites ==
  [][ ( /\ served' # served
        /\ last'.op = "admin_edit"
        /\ Admitted(last') )
      => LET target == CleanName(last'.name) \o MP4
             old_key == last'.key
         IN  /\ (target = old_key) => (last'.calls = <<>> /\ bucket' = bucket)
             /\ (target # old_key /\ target \in DOMAIN bucket)
                  => ( /\ last'.msg = "taken"
                       /\ \A i \in DOMAIN last'.calls :
                            last'.calls[i].call \notin {"copy", "delete"}
                       /\ bucket' = bucket )
             /\ (last'.resp = "/admin?success")
                  => ( /\ target \in DOMAIN bucket'
                       /\ bucket'[target] = bucket[old_key]
                       /\ old_key \notin DOMAIN bucket' ) ]_vars

\* The bucket after the first n logged S3 calls of a request that started on b.
RECURSIVE BucketAfter(_, _, _)
BucketAfter(b, calls, n) ==
  IF n = 0 THEN b
  ELSE LET before == BucketAfter(b, calls, n - 1)
           c == calls[n]
       IN  IF ~c.ok THEN before
           ELSE IF c.call = "copy" THEN Put(before, c.dst, before[c.key])
           ELSE IF c.call = "delete" THEN Del(before, c.key)
           ELSE before

\* The object at key k of bucket b is the video vid.
HoldsAt(b, k, vid) == k \in DOMAIN b /\ b[k] = vid

\* C11: action=approve on an existing key pending/<f>.mp4 copies to <f>.mp4 before
\* it deletes the pending key, so after every S3 call of the request the video is
\* under one of the two keys; when the request succeeds the pending key is gone and
\* <f>.mp4 holds the video, and once the refresh has run the word derived from
\* <f>.mp4 is in the approved index and the key is not in the pending index.
\* action=reject deletes the key and creates no object.
C11_ApproveIsMove ==
  [][ ( /\ served' # served
        /\ last'.op = "admin_action"
        /\ Admitted(last')
        /\ StartsWith(last'.key, PENDING)
        /\ EndsWith(last'.key, MP4)
        /\ last'.key \in DOMAIN bucket )
      => LET key == last'.key
             filename == SplitLast(key, "/")
             calls == last'.calls
             vid == bucket[key]
         IN  /\ BucketAfter(bucket, calls, Len(calls)) = bucket'
             /\ (last'.action = "approve") =>
                  /\ \A i \in DOMAIN calls :
                       calls[i].call = "delete" =>
                         ( /\ i = 2
                           /\ calls[1] = Call("copy", key, filename, TRUE)
                           /\ calls[i].key = key )
                  /\ \A n \in 0..Len(calls) :
                       \/ HoldsAt(BucketAfter(bucket, calls, n), key, vid)
                       \/ HoldsAt(BucketAfter(bucket, calls, n), filename, vid)
                  /\ (last'.resp = "/admin") =>
                       /\ key \notin DOMAIN bucket'
                       /\ HoldsAt(bucket', filename, vid)
                       /\ calls[Len(calls)].ok =>
                            /\ IndexWord(filename) \in DOMAIN video_index'
                            /\ key \notin DOMAIN pending_index'
             /\ (last'.action = "reject") =>
                  /\ calls # <<>>
                  /\ calls[1].call = "delete" /\ calls[1].key = key
                  /\ \A i \in DOMAIN calls : calls[i].call # "copy"
                  /\ (DOMAIN bucket') \subseteq (DOMAIN bucket)
                  /\ (last'.resp = "/admin") => key \notin DOMAIN bucket' ]_vars

\* The endpoints behind the admin session.
AdminOps == {"admin_action", "admin_delete", "admin_edit", "admin_upload"}

\* C12: an admin_action, admin_delete, admin_edit or admin_upload request whose
\* admin_session cookie is not "active" is redirected to /login, whether S3 is
\* available or not, makes no S3 call and changes neither the bucket nor an index;
\* and a response sets the cookie only when it is that of POST /login with username
\* and password both "admin".
C12_AuthGate ==
  [][ (served' # served) =>
        /\ (last'.op \in AdminOps /\ last'.cookie # "active") =>
             /\ last'.resp = "/login"
             /\ last'.calls = <<>>
             /\ bucket' = bucket
             /\ video_index' = video_index
             /\ pending_index' = pending_index
        /\ (last'.set_cookie = "active") <=>
             /\ last'.op = "login"
             /\ last'.username = "admin"
             /\ last'.password = "admin" ]_vars

\* A rename without the cookie was turned away to /login while S3 was off and the
\* bucket held the key it named.
C12_Witness ==
  /\ ~S3_AVAILABLE
  /\ last.op = "admin_edit"
  /\ last.cookie # "active"
  /\ last.key \in DOMAIN bucket
  /\ last.resp = "/login"

(***************************************************************************)
(* Properties of /translate                                                *)
(***************************************************************************)
\* What the claim has one lower-cased token contribute.
ExpectedFor(token) ==
  IF token \in DOMAIN video_index THEN <<video_index[token]>>
  ELSE LET known == SelectSeq(token, LAMBDA c : <<c>> \in DOMAIN video_index)
       IN  [i \in DOMAIN known |->
              [word |-> <<UpperChar(known[i])>>,
               key |-> video_index[<<known[i]>>].key,
               url |-> video_index[<<known[i]>>].url,
               type |-> "letter"]]

RECURSIVE ExpectedFrom(_, _)
ExpectedFrom(keywords, i) ==
  IF i > Len(keywords) THEN <<>>
  ELSE ExpectedFor(Lower(keywords[i])) \o ExpectedFrom(keywords, i + 1)

\* C2: for a non-empty text the keywords are alphabetic tokens and the videos are,
\* in keyword order, the entry of each lower-cased token the approved index has,
\* and otherwise one "letter" entry (word: the upper-cased character) per character
\* of the token that the index has, in character order.
C2_TranslateLookup ==
  (last.op = "translate" /\ last.text # <<>>) =>
    /\ \A i \in DOMAIN last.keywords : IsAlpha(last.keywords[i])
    /\ last.videos = ExpectedFrom(last.keywords, 1)

\* "b BAH" on an index with a, b and hi: the word b, then B and A spelled, h dropped.
C2_Witness ==
  /\ last.op = "translate"
  /\ Len(last.keywords) = 2
  /\ Len(last.videos) = 3
  /\ last.videos[1].word = <<"b">>
  /\ last.videos[2].word = <<"B">>
  /\ last.videos[3].word = <<"A">>
  /\ <<"h", "i">> \in DOMAIN video_index

(***************************************************************************)
(* Properties of the loaders                                               *)
(***************************************************************************)
NoTwoOf(records) ==
  \A i, j \in DOMAIN records :
    (records[i].word = records[j].word /\ records[i].language = records[j].language)
      => i = j

C6_TypeByLength ==
  LET made == classified \cup
                { [routine |-> "index_s3_files",
                   filename |-> SplitLast(video_index[w].key, "/"),
                   word |-> w, type |-> video_index[w].type] : w \in DOMAIN video_index }
  IN  /\ \A c \in made : /\ c.type = "letter" <=> Len(c.word) = 1
                         /\ c.type = "word" <=> Len(c.word) > 1
      /\ \A c, d \in made : c.filename = d.filename => c.type = d.type

\* C7: a dry run of push_dataset leaves the bucket and the collection as they were.
C7_DryRunTouchesNothing ==
  [][ (runs' # runs /\ run'.op = "push_dataset" /\ run'.dry_run)
      => (bucket' = bucket /\ mongo_docs' = mongo_docs) ]_vars

\* C9: connect_mongo makes at most 3 attempts; it returns True at the first attempt
\* whose ping succeeds, with collection set; it returns False after exactly 3 failed
\* attempts, with collection unset; it waits after a failed attempt but the last
\* one; and with collection set it returns True and makes no attempt.
C9_ConnectRetry ==
  run.op \in {"connect_mongo", "push_dataset"} =>
    IF run.was_set
    THEN run.ret /\ collection /\ run.attempts = 0 /\ run.waits = 0
    ELSE /\ run.attempts <= 3
         /\ run.ret <=> run.firstOk <= 3
         /\ run.ret => /\ collection
                       /\ run.attempts = run.firstOk
                       /\ run.waits = run.attempts - 1
         /\ ~run.ret => /\ ~collection
                        /\ run.attempts = 3
                        /\ run.waits = 2

\* A call that gave up after three failed pings, though a fourth would have succeeded.
C9_Witness ==
  /\ run.op = "connect_mongo"
  /\ ~run.was_set
  /\ run.firstOk = 4
  /\ ~run.ret
  /\ run.attempts = 3

====
